---- MODULE Spec2Model ----
(***************************************************************************)
(* Request correlation mix-ins (sprockets.mixins.correlation).              *)
(*                                                                          *)
(* A handler object is a record of its fields.  The mix-in methods are      *)
(* operators from handler records to handler records, translated from      *)
(* mixins.py.  The host (a tornado-like RequestHandler) is the environment: *)
(* it is modelled by the contract the HandlerMixin docstring states for it  *)
(* (set_header overwrites, set_default_headers is called on construction    *)
(* and after clear(), prepare is called before the handler method).         *)
(***************************************************************************)
EXTENDS Naturals, Sequences, FiniteSets, TLC

VARIABLES handlers, last

vars == <<handlers, last>>

----------------------------------------------------------------------------
(* Values *)

\* Python's None.
None == "<None>"
\* A header that is not in a header collection.
Absent == "<absent>"
\* An attribute that has not been assigned yet.
Unset == "<unset>"

\* Number of handler objects (requests) the host may have in flight.
MaxHandlers == 2
Handlers == 1..MaxHandlers

\* How often the application itself re-establishes the default headers.
MaxDefaultHeaders == 2

\* Names the correlation_header keyword may take; the first is the default.
DefaultHeaderName == "Correlation-ID"
HeaderNames == {DefaultHeaderName, "X-Request-ID"}

\* Spellings under which a client may send these headers.
WireNames == {"Correlation-ID", "Correlation-Id", "correlation-id",
              "X-Request-ID", "x-request-id"}

\* The host keys its header collections case-insensitively: every spelling
\* of a name is stored and looked up under one canonical spelling.
Normalize(name) ==
    CASE name \in {"Correlation-ID", "Correlation-Id", "correlation-id"}
            -> "Correlation-Id"
      [] name \in {"X-Request-ID", "X-Request-Id", "x-request-id"}
            -> "X-Request-Id"
      [] OTHER -> name

CanonNames == {Normalize(n) : n \in WireNames}

\* Identifiers uuid.uuid4() may return (two, so that two handlers can differ).
UUIDs == {"0f0e6f1c-uuid4-a", "9b2d7c55-uuid4-b"}

\* Values an inbound correlation header may carry (the empty value included).
InboundValues == {"deadbeef", ""}

\* Values application code (upstream prepare, the handler method, on_finish)
\* may assign to correlation_id.
AppValues == {"app-chosen", ""}

\* Inbound requests: no header at all, or one header under some spelling.
WireRequests == {{}} \cup {{<<n, v>>} : n \in WireNames, v \in InboundValues}

\* The host's parse of the request: canonical name -> value, or Absent.
HTTPHeaders(wire) ==
    [c \in CanonNames |->
        IF \E p \in wire : Normalize(p[1]) = c
        THEN (CHOOSE p \in wire : Normalize(p[1]) = c)[2]
        ELSE Absent]

\* Response headers the host sets by default (before set_default_headers).
ResponseNames == CanonNames \cup {"Content-Type"}
DefaultHeaders ==
    [c \in ResponseNames |-> IF c = "Content-Type" THEN "text/html" ELSE Absent]

\* Messages and keyword arguments the application logs with.
Messages == {"hello", "hello %s"}
EmptyExtra == "{}"
Kwargs == { [exc_info |-> "True"],
            [extra |-> "{'user': 'x'}", exc_info |-> "True"] }

----------------------------------------------------------------------------
(* The handler object before HandlerMixin.__init__ has run *)

NoHandler ==
    [pc              |-> "absent",
     header_name     |-> Unset,
     correlation_id  |-> Unset,
     request_headers |-> HTTPHeaders({}),
     headers         |-> [c \in ResponseNames |-> Absent],
     status          |-> 200,
     headers_written |-> FALSE,
     sent            |-> [c \in ResponseNames |-> Absent],
     finished        |-> FALSE,
     logger          |-> Unset,
     \* history: what happened to this handler so far
     generated       |-> Unset,
     assigned        |-> "never",
     prepared        |-> FALSE,
     default_headers_calls |-> 0]

----------------------------------------------------------------------------
(* Host collaborator, as the HandlerMixin docstring requires it *)

\* set_header "needs to overwrite the header value".
set_header(self, name, value) ==
    [self EXCEPT !.headers[Normalize(name)] = value]

\* The host's own set_default_headers does nothing.
RequestHandler_set_default_headers(self) == self

\* self.request.headers.get(name, default)
request_headers_get(self, name, default) ==
    LET v == self.request_headers[Normalize(name)]
    IN  IF v = Absent THEN default ELSE v

----------------------------------------------------------------------------
(* HandlerMixin *)

\* Variant: the inbound header is adopted at construction already.
HandlerMixin_init_AdoptInbound(self, correlation_header, request, uuid) ==
    [self EXCEPT !.header_name     = correlation_header,
                 !.correlation_id  =
                     IF request[Normalize(correlation_header)] = Absent
                     THEN uuid ELSE request[Normalize(correlation_header)],
                 !.generated       = uuid,
                 !.request_headers = request]

\* Variant: the identifier is not stored before super().__init__ is called.
HandlerMixin_init_LateIdentifier(self, correlation_header, request, uuid) ==
    [self EXCEPT !.header_name     = correlation_header,
                 !.generated       = uuid,
                 !.request_headers = request]

\* __init__, up to the call of super().__init__: the header name and a fresh
\* identifier are stored first.
HandlerMixin_init(self, correlation_header, request, uuid) ==
    [self EXCEPT !.header_name     = correlation_header,
                 !.correlation_id  = uuid,
                 !.generated       = uuid,
                 !.request_headers = request]

get_request_header(self, name, default) ==
    request_headers_get(self, name, default)

\* Variant: the setter stores the value and leaves the header alone.
correlation_id_setter_NoHeader(self, value) ==
    [self EXCEPT !.correlation_id = value]

\* Variant: the setter writes the header under the default name.
correlation_id_setter_DefaultName(self, value) ==
    LET s1 == [self EXCEPT !.correlation_id = value]
    IN  set_header(s1, DefaultHeaderName, s1.correlation_id)

\* The correlation_id property setter.
correlation_id_setter(self, value) ==
    LET s1 == [self EXCEPT !.correlation_id = value]
    IN  set_header(s1, s1.header_name, s1.correlation_id)

\* Variant: the hook forgets the correlation header.
set_default_headers_NoWrite(self) ==
    RequestHandler_set_default_headers(self)

\* Variant: the hook writes the identifier generated at construction.
set_default_headers_Stale(self) ==
    LET s1 == RequestHandler_set_default_headers(self)
    IN  set_header(s1, s1.header_name, s1.generated)

\* Variant: the hook adds a value to the header instead of overwriting it.
set_default_headers_AddHeader(self) ==
    LET s1  == RequestHandler_set_default_headers(self)
        old == s1.headers[Normalize(s1.header_name)]
    IN  set_header(s1, s1.header_name,
                   IF old = Absent THEN s1.correlation_id
                   ELSE old \o "," \o s1.correlation_id)

set_default_headers(self) ==
    LET s1 == RequestHandler_set_default_headers(self)
    IN  set_header(s1, s1.header_name, s1.correlation_id)

\* A call of the hook by the host or the application, counted.
call_set_default_headers(self) ==
    [set_default_headers(self) EXCEPT !.default_headers_calls = @ + 1]

\* Variant: the inbound header is looked up under the default name.
HandlerMixin_prepare_DefaultName(self) ==
    LET correlation_id == get_request_header(self, DefaultHeaderName, None)
    IN  IF correlation_id # None
        THEN correlation_id_setter(self, correlation_id)
        ELSE self

\* Variant: the result of the lookup is assigned without the None test.
HandlerMixin_prepare_NoNoneTest(self) ==
    correlation_id_setter(self, get_request_header(self, self.header_name, None))

\* Variant: the inbound header is adopted only when its value is truthy.
HandlerMixin_prepare_Truthy(self) ==
    LET correlation_id == get_request_header(self, self.header_name, None)
    IN  IF correlation_id \notin {None, ""}
        THEN correlation_id_setter(self, correlation_id)
        ELSE self

\* Variant: an identifier that was assigned already is not overridden.
HandlerMixin_prepare_KeepAssigned(self) ==
    LET correlation_id == get_request_header(self, self.header_name, None)
    IN  IF correlation_id # None /\ self.correlation_id = self.generated
        THEN correlation_id_setter(self, correlation_id)
        ELSE self

\* Variant: the inbound header is adopted only while the response is not
\* finished (the test LoggingMixin.prepare makes).
HandlerMixin_prepare_FinishedTest(self) ==
    LET correlation_id == get_request_header(self, self.header_name, None)
    IN  IF correlation_id # None /\ ~self.finished
        THEN correlation_id_setter(self, correlation_id)
        ELSE self

\* HandlerMixin.prepare after the upstream prepare has completed.
HandlerMixin_prepare(self) ==
    LET correlation_id == get_request_header(self, self.header_name, None)
    IN  IF correlation_id # None
        THEN correlation_id_setter(self, correlation_id)
        ELSE self

----------------------------------------------------------------------------
(* CorrelationAdapter and LoggingMixin *)

\* CorrelationAdapter.__init__(logger, extra=None)
CorrelationAdapter_init(extra) ==
    [correlation_id |-> None,
     extra          |-> IF extra = None THEN EmptyExtra ELSE extra]

\* Python truthiness of an identifier value.
Truthy(value) == value \notin {None, ""}

\* logging.LoggerAdapter.process: installs the adapter's extra in kwargs.
LoggerAdapter_process(adapter, msg, kwargs) ==
    <<msg, [k \in DOMAIN kwargs \cup {"extra"} |->
                IF k = "extra" THEN adapter.extra ELSE kwargs[k]]>>

\* Variant: the suffix is appended whenever the identifier is not None.
CorrelationAdapter_process_NotNone(adapter, msg, kwargs) ==
    LET m == IF adapter.correlation_id # None
             THEN msg \o " {CID " \o adapter.correlation_id \o "}"
             ELSE msg
    IN  LoggerAdapter_process(adapter, m, kwargs)

CorrelationAdapter_process(adapter, msg, kwargs) ==
    LET m == IF Truthy(adapter.correlation_id)
             THEN msg \o " {CID " \o adapter.correlation_id \o "}"
             ELSE msg
    IN  LoggerAdapter_process(adapter, m, kwargs)

\* Variant: the adapter starts with the handler's identifier.
LoggingMixin_initialize_Seeded(self) ==
    [self EXCEPT !.logger =
        [CorrelationAdapter_init(None) EXCEPT !.correlation_id = self.correlation_id]]

\* LoggingMixin.initialize: a fresh adapter, its correlation_id None.
LoggingMixin_initialize(self) ==
    [self EXCEPT !.logger = CorrelationAdapter_init(None)]

\* Variant: the logger is synchronized without the test of _finished.
LoggingMixin_prepare_NoFinishedTest(self) ==
    [self EXCEPT !.logger.correlation_id = self.correlation_id]

\* LoggingMixin.prepare after HandlerMixin.prepare has completed.
LoggingMixin_prepare(self) ==
    IF ~self.finished
    THEN [self EXCEPT !.logger.correlation_id = self.correlation_id]
    ELSE self

----------------------------------------------------------------------------
(* Host life cycle of one response *)

\* clear(): response state back to the defaults, then set_default_headers.
clear(self) ==
    call_set_default_headers([self EXCEPT !.headers = DefaultHeaders,
                                          !.status  = 200])

\* flush(): the headers go out with the first flush only.
flush(self) ==
    IF ~self.headers_written
    THEN [self EXCEPT !.headers_written = TRUE, !.sent = self.headers]
    ELSE self

finish(self) == [flush(self) EXCEPT !.finished = TRUE]

\* send_error(): with the headers already out nothing is reset.
send_error(self) ==
    IF self.headers_written
    THEN (IF self.finished THEN self ELSE finish(self))
    ELSE finish([clear(self) EXCEPT !.status = 500])

\* host __init__: clear() and then initialize().
RequestHandler_init(self) == LoggingMixin_initialize(clear(self))

----------------------------------------------------------------------------
(* correlation_id_logger, the access log writer *)

\* Status codes of finished responses (both sides of each severity band).
Statuses == {200, 399, 400, 499, 500, 599}

\* handler._request_summary()
Summaries == {"GET /x HTTP/1.1"}

\* 1000.0 * handler.request.request_time(), in hundredths of a millisecond.
RequestTimes == {5, 1234}

\* getattr(handler, "correlation_id", None): a handler without the mix-in
\* has no such attribute.
getattr_correlation_id(handler, default) ==
    IF handler.correlation_id = Unset THEN default ELSE handler.correlation_id

\* Variant: the raw inbound header is preferred to the handler's identifier.
correlation_id_logger_HeaderFirst(handler, summary, request_time) ==
    LET log_method == IF handler.status < 400 THEN "info"
                      ELSE IF handler.status < 500 THEN "warning"
                      ELSE "error"
        raw == request_headers_get(handler, "Correlation-ID", None)
        correlation_id == IF raw = None
                          THEN getattr_correlation_id(handler, None)
                          ELSE raw
    IN  << [level |-> log_method,
            msg   |-> "%d %s %.2fms {CID %s}",
            args  |-> <<handler.status, summary, request_time, correlation_id>>] >>

\* Variant: the bands are cut with <= instead of <.
correlation_id_logger_Inclusive(handler, summary, request_time) ==
    LET log_method == IF handler.status <= 400 THEN "info"
                      ELSE IF handler.status <= 500 THEN "warning"
                      ELSE "error"
        attr == getattr_correlation_id(handler, None)
        correlation_id == IF attr = None
                          THEN request_headers_get(handler, "Correlation-ID", None)
                          ELSE attr
    IN  << [level |-> log_method,
            msg   |-> "%d %s %.2fms {CID %s}",
            args  |-> <<handler.status, summary, request_time, correlation_id>>] >>

\* The calls of a tornado access_log method that one invocation makes:
\* the method chosen, the message template and its arguments.
correlation_id_logger(handler, summary, request_time) ==
    LET log_method == IF handler.status < 400 THEN "info"
                      ELSE IF handler.status < 500 THEN "warning"
                      ELSE "error"
        attr == getattr_correlation_id(handler, None)
        correlation_id == IF attr = None
                          THEN request_headers_get(handler, "Correlation-ID", None)
                          ELSE attr
    IN  << [level |-> log_method,
            msg   |-> "%d %s %.2fms {CID %s}",
            args  |-> <<handler.status, summary, request_time, correlation_id>>] >>

\* str() of an identifier value, as %s renders it.
PyStr(value) == IF value = None THEN "None" ELSE value

\* %.2f of a number given in hundredths.
Format2f(hundredths) ==
    ToString(hundredths \div 100) \o "."
        \o ToString((hundredths % 100) \div 10) \o ToString(hundredths % 10)

\* The line the logging module renders from a call of the access log.
AccessLogLine(call) ==
    ToString(call.args[1]) \o " " \o call.args[2] \o " "
        \o Format2f(call.args[3]) \o "ms {CID " \o PyStr(call.args[4]) \o "}"

----------------------------------------------------------------------------
(* State machine *)

Op(h, op, arg, out) == [h |-> h, op |-> op, arg |-> arg, out |-> out]

Become(h, self, pc) == handlers' = [handlers EXCEPT ![h] = [self EXCEPT !.pc = pc]]

Init ==
    /\ handlers = [h \in Handlers |-> NoHandler]
    /\ last = Op(0, "none", None, None)

\* The host constructs the handler for a new request.
Construct(h) ==
    /\ handlers[h].pc = "absent"
    /\ \E name \in HeaderNames, wire \in WireRequests, uuid \in UUIDs :
         /\ Become(h, RequestHandler_init(
                         HandlerMixin_init(handlers[h], name, HTTPHeaders(wire), uuid)),
                   "upstream")
         /\ last' = Op(h, "construct", None, None)

\* Application code assigns correlation_id: in the upstream prepare, in the
\* handler method, or after the response is finished (on_finish).
Assign(h) ==
    /\ handlers[h].pc \in {"upstream", "method", "done"}
    /\ \E v \in AppValues :
         /\ Become(h, [correlation_id_setter(handlers[h], v) EXCEPT
                          !.assigned = IF handlers[h].pc = "upstream"
                                       THEN "upstream" ELSE "late"],
                   handlers[h].pc)
         /\ last' = Op(h, "assign", v, None)

\* The upstream prepare returns a future and HandlerMixin.prepare yields it.
UpstreamSuspend(h) ==
    /\ handlers[h].pc = "upstream"
    /\ Become(h, handlers[h], "suspended")
    /\ last' = Op(h, "suspend", None, None)

UpstreamResume(h) ==
    /\ handlers[h].pc = "suspended"
    /\ Become(h, handlers[h], "upstream")
    /\ last' = Op(h, "resume", None, None)

\* The upstream prepare finishes the response itself (a redirect, a
\* short-circuit) and goes on.
UpstreamFinish(h) ==
    /\ handlers[h].pc = "upstream"
    /\ ~handlers[h].finished
    /\ Become(h, finish(handlers[h]), "upstream")
    /\ last' = Op(h, "finish", None, None)

\* The upstream prepare raises, directly or through the future that
\* HandlerMixin.prepare is suspended on: neither prepare body runs any further.
UpstreamRaise(h) ==
    /\ handlers[h].pc \in {"upstream", "suspended"}
    /\ Become(h, handlers[h], "exception")
    /\ last' = Op(h, "raise", None, None)

\* Variant: the future of the upstream prepare is not yielded, the header is
\* read while the upstream prepare is still pending.
PrepareHandlerMixin_NoYield(h) ==
    /\ handlers[h].pc \in {"upstream", "suspended"}
    /\ Become(h, [HandlerMixin_prepare(handlers[h]) EXCEPT !.prepared = TRUE],
              "logging_prepare")
    /\ last' = Op(h, "prepare", None, None)

\* The upstream prepare completes; HandlerMixin.prepare reads the header.
PrepareHandlerMixin(h) ==
    /\ handlers[h].pc = "upstream"
    /\ Become(h, [HandlerMixin_prepare(handlers[h]) EXCEPT !.prepared = TRUE],
              "logging_prepare")
    /\ last' = Op(h, "prepare", None, None)

\* Variant: one adapter object is shared by all handlers, so that the
\* synchronization of one handler shows in the logger of every other.
PrepareLoggingMixin_SharedAdapter(h) ==
    /\ handlers[h].pc = "logging_prepare"
    /\ handlers' =
          [g \in Handlers |->
             IF g = h
             THEN [LoggingMixin_prepare(handlers[h]) EXCEPT
                      !.pc = IF handlers[h].finished THEN "done" ELSE "method"]
             ELSE IF handlers[g].pc # "absent" /\ ~handlers[h].finished
                  THEN [handlers[g] EXCEPT
                           !.logger.correlation_id = handlers[h].correlation_id]
                  ELSE handlers[g]]
    /\ last' = Op(h, "sync", None, None)

\* LoggingMixin.prepare resumes; the host then runs the method unless the
\* response is finished.
PrepareLoggingMixin(h) ==
    /\ handlers[h].pc = "logging_prepare"
    /\ Become(h, LoggingMixin_prepare(handlers[h]),
              IF handlers[h].finished THEN "done" ELSE "method")
    /\ last' = Op(h, "sync", None, None)

\* The application logs through self.logger.
Log(h) ==
    /\ handlers[h].pc \in {"upstream", "suspended", "method", "done"}
    /\ \E msg \in Messages, kwargs \in Kwargs :
         last' = Op(h, "log", <<msg, kwargs>>,
                    CorrelationAdapter_process(handlers[h].logger, msg, kwargs))
    /\ UNCHANGED handlers

\* The handler method flushes the partial response.
HandlerFlush(h) ==
    /\ handlers[h].pc = "method"
    /\ ~handlers[h].finished
    /\ Become(h, flush(handlers[h]), "method")
    /\ last' = Op(h, "flush", None, None)

\* The default headers are established again (clear() called by the
\* application, or by the host).
SetDefaultHeaders(h) ==
    /\ handlers[h].pc \in {"upstream", "method"}
    /\ handlers[h].default_headers_calls <= MaxDefaultHeaders
    /\ Become(h, call_set_default_headers(handlers[h]), handlers[h].pc)
    /\ last' = Op(h, "set_default_headers", None, None)

\* The handler method returns and the host finishes the response.
HandlerReturn(h) ==
    /\ handlers[h].pc = "method"
    /\ Become(h, IF handlers[h].finished THEN handlers[h] ELSE finish(handlers[h]),
              "done")
    /\ last' = Op(h, "return", None, None)

\* The handler method raises.
HandlerRaise(h) ==
    /\ handlers[h].pc = "method"
    /\ Become(h, handlers[h], "exception")
    /\ last' = Op(h, "raise", None, None)

\* The host handles the exception: nothing if the response is finished,
\* otherwise send_error.
HostSendError(h) ==
    /\ handlers[h].pc = "exception"
    /\ Become(h, IF handlers[h].finished THEN handlers[h] ELSE send_error(handlers[h]),
              "done")
    /\ last' = Op(h, "send_error", None, None)

Step(h) ==
    \/ Construct(h)
    \/ Assign(h)
    \/ UpstreamSuspend(h)
    \/ UpstreamResume(h)
    \/ UpstreamFinish(h)
    \/ UpstreamRaise(h)
    \/ PrepareHandlerMixin(h)
    \/ PrepareLoggingMixin(h)
    \/ Log(h)
    \/ HandlerFlush(h)
    \/ SetDefaultHeaders(h)
    \/ HandlerReturn(h)
    \/ HandlerRaise(h)
    \/ HostSendError(h)

\* One request at a time.
Next == Step(1)

Spec == Init /\ [][Next]_vars

----------------------------------------------------------------------------
(* A request whose application code sets response headers of its own *)

\* Value the application gives to a response header of its own.
AppHeaderValue == "set-by-application"

\* The application sets a response header other than the correlation header.
AppSetHeader(h) ==
    /\ handlers[h].pc \in {"upstream", "method"}
    /\ \E c \in ResponseNames \ {Normalize(handlers[h].header_name)} :
         /\ handlers[h].headers[c] # AppHeaderValue
         /\ Become(h, [handlers[h] EXCEPT !.headers[c] = AppHeaderValue],
                   handlers[h].pc)
    /\ last' = Op(h, "set_header", None, None)

NextHeaders == Step(1) \/ AppSetHeader(1)

SpecHeaders == Init /\ [][NextHeaders]_vars

----------------------------------------------------------------------------
(* Several requests in flight at once *)

\* Identifiers that tell the requests apart: what uuid4 returns for the
\* handler of request h, what the client of request h sends, and what the
\* application assigns while it handles request h.
UuidOf(h) == "uuid4-of-request-" \o ToString(h)
InboundOfRequest(h) == "sent-with-request-" \o ToString(h)
AppValueOf(h) == "assigned-in-request-" \o ToString(h)

\* The host constructs the handler of request h.
ConstructInFlight(h) ==
    /\ handlers[h].pc = "absent"
    /\ \E wire \in {{}, {<<"Correlation-Id", InboundOfRequest(h)>>}} :
         Become(h, RequestHandler_init(
                      HandlerMixin_init(handlers[h], DefaultHeaderName,
                                        HTTPHeaders(wire), UuidOf(h))),
                "upstream")
    /\ last' = Op(h, "construct", None, None)

\* Application code of request h assigns correlation_id.
AssignInFlight(h) ==
    /\ handlers[h].pc \in {"upstream", "method"}
    /\ handlers[h].correlation_id # AppValueOf(h)
    /\ Become(h, [correlation_id_setter(handlers[h], AppValueOf(h)) EXCEPT
                     !.assigned = IF handlers[h].pc = "upstream"
                                  THEN "upstream" ELSE "late"],
              handlers[h].pc)
    /\ last' = Op(h, "assign", AppValueOf(h), None)

InFlightStep(h) ==
    \/ ConstructInFlight(h)
    \/ AssignInFlight(h)
    \/ UpstreamSuspend(h)
    \/ UpstreamResume(h)
    \/ UpstreamRaise(h)
    \/ PrepareHandlerMixin(h)
    \/ PrepareLoggingMixin(h)
    \/ HandlerReturn(h)
    \/ HandlerRaise(h)
    \/ HostSendError(h)

\* The requests interleave at every step, the suspension points included.
NextInFlight == \E h \in Handlers : InFlightStep(h)

SpecInFlight == Init /\ [][NextInFlight]_vars

----------------------------------------------------------------------------
(* Requests up to the access log *)

\* The host constructs a handler that does not mix HandlerMixin in.
ConstructPlain(h) ==
    /\ handlers[h].pc = "absent"
    /\ \E wire \in WireRequests :
         Become(h, [handlers[h] EXCEPT !.request_headers = HTTPHeaders(wire),
                                       !.headers = DefaultHeaders],
                "plain")
    /\ last' = Op(h, "construct_plain", None, None)

\* The plain handler answers with some status.
PlainRespond(h) ==
    /\ handlers[h].pc = "plain"
    /\ \E status \in Statuses :
         Become(h, finish([handlers[h] EXCEPT !.status = status]), "plain_done")
    /\ last' = Op(h, "return", None, None)

\* The handler method calls set_status.
SetStatus(h) ==
    /\ handlers[h].pc = "method"
    /\ ~handlers[h].headers_written
    /\ \E status \in Statuses :
         /\ status # handlers[h].status
         /\ Become(h, [handlers[h] EXCEPT !.status = status], "method")
    /\ last' = Op(h, "set_status", None, None)

\* The host calls log_function(handler) once the request is complete.
AccessLog(h) ==
    /\ handlers[h].pc \in {"done", "plain_done"}
    /\ handlers[h].finished
    /\ Become(h, handlers[h], "logged")
    /\ \E summary \in Summaries, request_time \in RequestTimes :
         last' = Op(h, "access_log", <<summary, request_time>>,
                    correlation_id_logger(handlers[h], summary, request_time))

AccessLogStep(h) ==
    \/ Construct(h)
    \/ ConstructPlain(h)
    \/ PlainRespond(h)
    \/ Assign(h)
    \/ UpstreamRaise(h)
    \/ PrepareHandlerMixin(h)
    \/ PrepareLoggingMixin(h)
    \/ SetStatus(h)
    \/ HandlerReturn(h)
    \/ HandlerRaise(h)
    \/ HostSendError(h)
    \/ AccessLog(h)

NextAccessLog == AccessLogStep(1)

SpecAccessLog == Init /\ [][NextAccessLog]_vars

----------------------------------------------------------------------------
(* Properties *)

\* The response header the handler holds under its configured name.
HeaderOf(self) == self.headers[Normalize(self.header_name)]
\* The same header as it went out with the flushed response.
SentOf(self) == self.sent[Normalize(self.header_name)]
\* The inbound header under the configured name, None when there is none.
InboundOf(self) ==
    LET v == self.request_headers[Normalize(self.header_name)]
    IN  IF v = Absent THEN None ELSE v

\* The step in which the response headers of handler h go out.
FlushStep(h) == ~handlers[h].headers_written /\ handlers'[h].headers_written
\* The step that was the operation op of handler h.
OpStep(h, op) == last'.h = h /\ last'.op = op

\* C1: whenever the response headers are flushed (first flush, finish or
\* error response), the outbound correlation header is present and equals
\* the handler's correlation_id at that moment.
C1_HeaderEqualsIdentifierAtFlush ==
    [][\A h \in Handlers :
         FlushStep(h) =>
            /\ SentOf(handlers'[h]) # Absent
            /\ SentOf(handlers'[h]) = handlers'[h].correlation_id]_vars

C1_Witness ==
    \E h \in Handlers :
        /\ handlers[h].headers_written
        /\ handlers[h].status = 500
        /\ handlers[h].assigned = "late"
        /\ SentOf(handlers[h]) = handlers[h].correlation_id

C3_ErrorResponseKeepsHeader ==
    [][\A h \in Handlers :
         (/\ handlers[h].pc = "exception"
          /\ handlers'[h].pc = "done"
          /\ ~handlers[h].headers_written) =>
            /\ handlers'[h].default_headers_calls
                  = handlers[h].default_headers_calls + 1
            /\ handlers'[h].correlation_id = handlers[h].correlation_id
            /\ handlers'[h].headers_written
            /\ handlers'[h].status = 500
            /\ SentOf(handlers'[h]) = handlers[h].correlation_id]_vars

C3_Witness ==
    \E h \in Handlers :
        /\ last = [h |-> h, op |-> "send_error", arg |-> None, out |-> None]
        /\ handlers[h].prepared
        /\ handlers[h].assigned = "late"
        /\ handlers[h].status = 500
        /\ handlers[h].default_headers_calls >= 2
        /\ SentOf(handlers[h]) = handlers[h].correlation_id
        /\ SentOf(handlers[h]) # handlers[h].generated

\* C4: with no inbound correlation header (and no application code
\* assigning correlation_id) the identifier stays the generated one through
\* prepare, and the flushed response carries it, non-empty.
C4_GeneratedKeptWithoutInbound ==
    \A h \in Handlers :
        (/\ handlers[h].pc # "absent"
         /\ InboundOf(handlers[h]) = None
         /\ handlers[h].assigned = "never")
        => /\ handlers[h].correlation_id = handlers[h].generated
           /\ handlers[h].generated \in UUIDs
           /\ handlers[h].headers_written
                => /\ SentOf(handlers[h]) = handlers[h].generated
                   /\ SentOf(handlers[h]) \notin {Absent, None, ""}

C4_Witness ==
    \E h \in Handlers :
        /\ handlers[h].headers_written
        /\ handlers[h].prepared
        /\ InboundOf(handlers[h]) = None
        /\ \E c \in CanonNames : handlers[h].request_headers[c] = "deadbeef"
        /\ handlers[h].assigned = "never"
        /\ SentOf(handlers[h]) = handlers[h].generated

\* C5: right after correlation_id is assigned V, wherever in the life cycle,
\* correlation_id and the outbound header both equal V.
C5_SetterWritesHeader ==
    \A h \in Handlers :
        (last.h = h /\ last.op = "assign")
        => /\ handlers[h].correlation_id = last.arg
           /\ HeaderOf(handlers[h]) = last.arg

C5_Witness ==
    \E h \in Handlers :
        /\ last.h = h /\ last.op = "assign" /\ last.arg = "app-chosen"
        /\ handlers[h].pc = "done"
        /\ handlers[h].finished
        /\ HeaderOf(handlers[h]) = "app-chosen"

\* C6: set_default_headers never changes correlation_id, leaves the header
\* equal to it, and a call that directly follows another call changes no
\* header at all.
C6_DefaultHeadersIdempotent ==
    [][\A h \in Handlers :
         OpStep(h, "set_default_headers") =>
            /\ handlers'[h].correlation_id = handlers[h].correlation_id
            /\ HeaderOf(handlers'[h]) = handlers[h].correlation_id
            /\ (last.h = h /\ last.op = "set_default_headers")
                 => handlers'[h].headers = handlers[h].headers]_vars

C6_Witness ==
    \E h \in Handlers :
        /\ last.h = h /\ last.op = "set_default_headers"
        /\ handlers[h].default_headers_calls >= 3
        /\ handlers[h].assigned # "never"
        /\ HeaderOf(handlers[h]) = handlers[h].correlation_id

\* C7 as stated: an inbound header that is present but empty is not adopted,
\* so the identifier and the header stay the generated ones.
C7_EmptyInboundIgnored ==
    \A h \in Handlers :
        (/\ last.h = h /\ last.op = "prepare"
         /\ InboundOf(handlers[h]) = ""
         /\ handlers[h].assigned = "never")
        => /\ handlers[h].correlation_id = handlers[h].generated
           /\ HeaderOf(handlers[h]) = handlers[h].generated

\* C7 amended: prepare adopts the inbound header whenever it is present, the
\* empty value included (identifier and header become that value); only
\* when the header is absent does prepare leave the handler as it was.
C7_InboundAdoptedWhenPresent ==
    [][\A h \in Handlers :
         OpStep(h, "prepare") =>
            IF InboundOf(handlers[h]) # None
            THEN /\ handlers'[h].correlation_id = InboundOf(handlers[h])
                 /\ HeaderOf(handlers'[h]) = InboundOf(handlers[h])
            ELSE /\ handlers'[h].correlation_id = handlers[h].correlation_id
                 /\ handlers'[h].headers = handlers[h].headers]_vars

C7_Witness ==
    \E h \in Handlers :
        /\ last.h = h /\ last.op = "prepare"
        /\ InboundOf(handlers[h]) = ""
        /\ handlers[h].correlation_id = ""
        /\ HeaderOf(handlers[h]) = ""
        /\ handlers[h].generated # ""

\* C8: once LoggingMixin.prepare has synchronized the logger, its
\* identifier equals the handler's correlation_id as long as the response
\* is not finished.
C8_LoggerFollowsIdentifier ==
    \A h \in Handlers :
        (/\ handlers[h].pc # "absent"
         /\ handlers[h].logger.correlation_id # None
         /\ ~handlers[h].finished)
        => handlers[h].logger.correlation_id = handlers[h].correlation_id

\* C9: the step of LoggingMixin.prepare sets the logger's identifier to the
\* handler's current correlation_id (the inbound value when there is one)
\* if the response is not finished, and leaves the logger alone if it is.
C9_LoggerSynchronization ==
    [][\A h \in Handlers :
         OpStep(h, "sync") =>
            /\ handlers'[h].correlation_id = handlers[h].correlation_id
            /\ IF ~handlers[h].finished
               THEN /\ handlers'[h].logger.correlation_id
                          = handlers[h].correlation_id
                    /\ InboundOf(handlers[h]) # None
                         => handlers'[h].logger.correlation_id
                               = InboundOf(handlers[h])
                    /\ (InboundOf(handlers[h]) = None
                          /\ handlers[h].assigned = "never")
                         => handlers'[h].logger.correlation_id
                               = handlers[h].generated
               ELSE handlers'[h].logger = handlers[h].logger]_vars

C9_Witness ==
    \E h \in Handlers :
        /\ last.h = h /\ last.op = "sync"
        /\ ~handlers[h].finished
        /\ InboundOf(handlers[h]) = "deadbeef"
        /\ handlers[h].assigned = "upstream"
        /\ handlers[h].logger.correlation_id = "deadbeef"

AccessLogIdentifier(self) ==
    IF self.correlation_id # Unset THEN self.correlation_id
    ELSE IF self.request_headers["Correlation-Id"] # Absent
         THEN self.request_headers["Correlation-Id"]
         ELSE None

\* C11: one invocation of correlation_id_logger makes exactly one log call;
\* the identifier in it is the attached provider's correlation_id, else the
\* raw inbound Correlation-ID header, else None, and the line ends with the
\* tag " {CID <value>}".
C11_AccessLogIdentifierPrecedence ==
    \A h \in Handlers :
        (last.h = h /\ last.op = "access_log") =>
            /\ Len(last.out) = 1
            /\ last.out[1].args[4] = AccessLogIdentifier(handlers[h])
            /\ AccessLogLine(last.out[1])
                 = ToString(handlers[h].status) \o " " \o last.arg[1] \o " "
                     \o Format2f(last.arg[2]) \o "ms {CID "
                     \o PyStr(AccessLogIdentifier(handlers[h])) \o "}"

C11_Witness ==
    \E h \in Handlers :
        /\ last.h = h /\ last.op = "access_log"
        /\ handlers[h].correlation_id = handlers[h].generated
        /\ handlers[h].request_headers["Correlation-Id"] = "deadbeef"
        /\ AccessLogLine(last.out[1])
             = "500 GET /x HTTP/1.1 12.34ms {CID " \o handlers[h].generated \o "}"

\* C12: the severity depends on the status code alone: info below 400,
\* warning from 400 to 499, error from 500 on.
C12_AccessLogSeverity ==
    \A h \in Handlers :
        (last.h = h /\ last.op = "access_log") =>
            LET status == handlers[h].status
                level  == last.out[1].level
            IN  /\ last.out[1].args[1] = status
                /\ (level = "info")    <=> (status < 400)
                /\ (level = "warning") <=> (400 <= status /\ status < 500)
                /\ (level = "error")   <=> (status >= 500)
                /\ level \in {"info", "warning", "error"}

C12_Witness ==
    \E h \in Handlers :
        /\ last.h = h /\ last.op = "access_log"
        /\ handlers[h].status = 400
        /\ handlers[h].correlation_id # Unset
        /\ last.out[1].level = "warning"

\* C13: under any configured name H the provider reads the inbound header H
\* only and writes the outbound header H only: prepare, the setter,
\* set_default_headers and the logger synchronization leave every other
\* response header as it was.
C13_OnlyConfiguredHeader ==
    [][\A h \in Handlers :
         (last'.h = h
            /\ last'.op \in {"assign", "prepare", "set_default_headers", "sync"})
         => LET H == Normalize(handlers[h].header_name)
            IN  /\ handlers'[h].header_name = handlers[h].header_name
                /\ \A c \in ResponseNames \ {H} :
                      handlers'[h].headers[c] = handlers[h].headers[c]
                /\ last'.op \in {"assign", "prepare", "set_default_headers"}
                     => handlers'[h].headers[H] = handlers'[h].correlation_id
                /\ last'.op = "prepare"
                     => handlers'[h].correlation_id
                          = IF handlers[h].request_headers[H] = Absent
                            THEN handlers[h].correlation_id
                            ELSE handlers[h].request_headers[H]]_vars

C13_Witness ==
    \E h \in Handlers :
        /\ last.h = h /\ last.op = "prepare"
        /\ handlers[h].header_name = "X-Request-ID"
        /\ handlers[h].request_headers["Correlation-Id"] = "deadbeef"
        /\ handlers[h].correlation_id = handlers[h].generated
        /\ handlers[h].headers["X-Request-Id"] = handlers[h].generated
        /\ handlers[h].headers["Correlation-Id"] = AppHeaderValue
        /\ handlers[h].headers["Content-Type"] = AppHeaderValue

\* C14: HandlerMixin.prepare reads the inbound header once, when the
\* upstream prepare has completed (never while it is suspended) and before
\* the handler method runs; what the upstream prepare assigned is overridden
\* by an inbound header and kept without one.
C14_PrepareOrdering ==
    [][\A h \in Handlers :
         /\ OpStep(h, "prepare") =>
               /\ handlers[h].pc = "upstream"
               /\ ~handlers[h].prepared
               /\ handlers'[h].pc = "logging_prepare"
               /\ handlers'[h].correlation_id
                    = IF InboundOf(handlers[h]) # None
                      THEN InboundOf(handlers[h])
                      ELSE handlers[h].correlation_id
         /\ handlers'[h].pc = "method" => handlers'[h].prepared
         /\ (handlers[h].prepared /\ handlers[h].pc = "logging_prepare")
               => handlers'[h].correlation_id = handlers[h].correlation_id]_vars

C14_Witness ==
    \E h \in Handlers :
        /\ last.h = h /\ last.op = "prepare"
        /\ handlers[h].pc = "logging_prepare"
        /\ handlers[h].assigned = "upstream"
        /\ InboundOf(handlers[h]) = "deadbeef"
        /\ handlers[h].correlation_id = "deadbeef"
        /\ handlers[h].generated # "deadbeef"

OwnIdentifiers(h) == {UuidOf(h), InboundOfRequest(h), AppValueOf(h)}

\* C16: with several requests in flight, a step of one request's handler
\* leaves every other handler (identifier, headers, logger) as it was, and
\* each handler's header, sent header and logger carry identifiers of its
\* own request only.
C16_RequestsIsolated ==
    [][\A h \in Handlers :
         /\ \A g \in Handlers \ {h} :
               last'.h = h => handlers'[g] = handlers[g]
         /\ handlers'[h].pc # "absent" =>
               /\ handlers'[h].correlation_id \in OwnIdentifiers(h)
               /\ HeaderOf(handlers'[h]) = handlers'[h].correlation_id
               /\ handlers'[h].logger.correlation_id
                     \in OwnIdentifiers(h) \cup {None}
               /\ handlers'[h].headers_written
                     => SentOf(handlers'[h]) \in OwnIdentifiers(h)]_vars

C16_Witness ==
    \E h, g \in Handlers :
        /\ h # g
        /\ last.h = h /\ last.op = "sync"
        /\ handlers[h].logger.correlation_id = InboundOfRequest(h)
        /\ handlers[g].pc = "suspended"
        /\ handlers[g].assigned = "upstream"
        /\ handlers[g].correlation_id = AppValueOf(g)
        /\ handlers[g].logger.correlation_id = None

\* C17: every call of set_default_headers, the one made from inside the
\* host's constructor included, finds the identifier set: the header it
\* writes is never the unset attribute, and the first call writes the
\* identifier generated in __init__.
C17_IdentifierSetBeforeDefaultHeaders ==
    [][\A h \in Handlers :
         /\ handlers'[h].default_headers_calls > handlers[h].default_headers_calls
               => /\ handlers'[h].correlation_id \notin {Unset, None, Absent}
                  /\ HeaderOf(handlers'[h]) = handlers'[h].correlation_id
         /\ OpStep(h, "construct")
               => /\ handlers'[h].default_headers_calls = 1
                  /\ handlers'[h].generated \in UUIDs
                  /\ HeaderOf(handlers'[h]) = handlers'[h].generated]_vars

C17_Witness ==
    \E h \in Handlers :
        /\ last.h = h /\ last.op = "construct"
        /\ handlers[h].default_headers_calls = 1
        /\ handlers[h].header_name = "X-Request-ID"
        /\ handlers[h].headers["X-Request-Id"] = handlers[h].generated
        /\ handlers[h].correlation_id = handlers[h].generated

\* C18: HandlerMixin.prepare does not test whether the response is finished:
\* when the upstream prepare has finished it and an inbound header is
\* present, the setter still runs and writes the handler's header, while
\* the header that went out stays what it was, so the flushed identifier
\* differs from the handler's final correlation_id whenever it differs from
\* the inbound value.
C18_SetterRunsOnFinishedResponse ==
    [][\A h \in Handlers :
         (/\ OpStep(h, "prepare")
          /\ handlers[h].finished
          /\ InboundOf(handlers[h]) # None)
         => /\ handlers'[h].correlation_id = InboundOf(handlers[h])
            /\ HeaderOf(handlers'[h]) = InboundOf(handlers[h])
            /\ handlers'[h].finished
            /\ handlers'[h].sent = handlers[h].sent
            /\ SentOf(handlers[h]) # InboundOf(handlers[h])
                 => SentOf(handlers'[h]) # handlers'[h].correlation_id]_vars

C18_Witness ==
    \E h \in Handlers :
        /\ last.h = h /\ last.op = "prepare"
        /\ handlers[h].finished
        /\ handlers[h].headers_written
        /\ handlers[h].assigned = "never"
        /\ handlers[h].correlation_id = "deadbeef"
        /\ HeaderOf(handlers[h]) = "deadbeef"
        /\ SentOf(handlers[h]) = handlers[h].generated
        /\ SentOf(handlers[h]) # handlers[h].correlation_id

\* The handler is between LoggingMixin.initialize and the synchronization
\* of LoggingMixin.prepare (which an abort of the upstream prepare skips).
BeforeSynchronization(self) ==
    \/ self.pc \in {"upstream", "suspended", "logging_prepare"}
    \/ self.pc \in {"exception", "done"} /\ ~self.prepared

\* C19: from LoggingMixin.initialize until LoggingMixin.prepare synchronizes
\* it, the logger's correlation_id is None although the handler holds an
\* identifier, and a message logged in that window comes out of
\* CorrelationAdapter.process without a CID suffix.
C19_LoggerUnsetUntilSynchronized ==
    \A h \in Handlers :
        BeforeSynchronization(handlers[h])
        => /\ handlers[h].logger.correlation_id = None
           /\ handlers[h].correlation_id \notin {Unset, None, Absent}
           /\ handlers[h].generated \in UUIDs
           /\ (last.h = h /\ last.op = "log") => last.out[1] = last.arg[1]

C19_Witness ==
    \E h \in Handlers :
        /\ last.h = h /\ last.op = "log"
        /\ handlers[h].pc \in {"upstream", "suspended"}
        /\ handlers[h].correlation_id = handlers[h].generated
        /\ handlers[h].logger.correlation_id = None
        /\ last.arg[1] = "hello"
        /\ last.out[1] = "hello"

====
